---- MODULE Spec2Model ----
(***************************************************************************)
(* Model of the pcs-scrapper pipeline (src/index.js, src/unnamed/part_000).*)
(*                                                                         *)
(* The repository holds four revisions of the same script:                 *)
(*   "r1"  src/index.js lines   1-131  (element-handle extraction, flat)   *)
(*   "p0"  src/unnamed/part_000        ($$eval extraction, flat)           *)
(*   "r2"  src/index.js lines 133-381  (three levels, scales, reviewParts) *)
(*   "r3"  src/index.js lines 383-595  (three levels, award)               *)
(* The variable revision selects the script that is run.                   *)
(*                                                                         *)
(* Texts are sequences of one-character strings. The token "S" stands for  *)
(* the literal "scale is ", and the token "Y" for the literal "(you)".     *)
(* Numbers read from a page are kept in tenths (1.5 is 15).                *)
(***************************************************************************)
EXTENDS Integers, Sequences, FiniteSets, TLC

VARIABLES
    revision,    \* which revision of the script runs
    landing,     \* the category links of the landing page (frozen page content)
    mainPc,      \* the await the main function is suspended on
    tasks,       \* the async branches: path |-> [pc, item, result, values]
    categories,  \* main's local: the discovered categories
    mainValues,  \* the value slots of main's Promise.all
    openPages,   \* pages created with browser.newPage() and not closed
    loggedIn,    \* the login sequence has completed
    logins,      \* number of completed login sequences of this run
    failure,     \* the operation whose await threw, or "none"
    logged,      \* log.error has been called by the top-level catch
    exitCode,    \* process exit status, -1 while the process is alive
    output,      \* the document handed to writeFile, <<>> before
    runNo,       \* 1 for the first run of the script, 2 for a second run
    firstOutput, \* the document written by the first run
    unitIn,      \* input of the extraction function under study
    unitOut,     \* its output
    unitPc       \* "none" | "ready" | "done" | "threw"

vars == << revision, landing, mainPc, tasks, categories, mainValues, openPages,
           loggedIn, logins, failure, logged, exitCode, output, runNo,
           firstOutput, unitIn, unitOut, unitPc >>

pipeVars == << revision, landing, mainPc, tasks, categories, mainValues,
               openPages, loggedIn, logins, failure, logged, exitCode, output,
               runNo, firstOutput >>

unitVars == << unitIn, unitOut, unitPc >>

-----------------------------------------------------------------------------
(* Bounds *)

MaxGroups == 2      \* row groups (tbody/thead) under the listing blockquote
MaxRows == 4        \* rows in one row group
MaxTextLen == 4     \* characters of a reviewer cell
MaxScaleLen == 7    \* characters of a rating / expertise cell
MaxTrs == 3         \* rows of the third table of a review page
MaxCellLen == 2     \* characters of one row of the third table

-----------------------------------------------------------------------------
(* JavaScript values *)

Null == << "null" >>          \* null in a text-valued field
NoMatch == << >>              \* RegExp.exec returned null
Pending == << >>              \* a Promise.all slot not yet filled
External == << "external" >>  \* the literal 'external'

Min(S) == CHOOSE x \in S : \A y \in S : x <= y

Digits == { "1", "5" }

\* +x for x matching \d(?:\.\d)?, in tenths
DigitValue(c) == IF c = "1" THEN 1 ELSE 5
ToNumber(x) == IF Len(x) = 1 THEN 10 * DigitValue(x[1])
               ELSE 10 * DigitValue(x[1]) + DigitValue(x[3])

-----------------------------------------------------------------------------
(* Text extraction: the regular expressions of the page scripts *)

\* number of consecutive characters other than ")" from position i on: [^)]+
RECURSIVE RunNotClose(_, _)
RunNotClose(s, i) ==
    IF i > Len(s) \/ s[i] = ")" THEN 0 ELSE 1 + RunNotClose(s, i + 1)

\* /\(([^)]+)\)/ tried at position i: << whole match, group 1 >> or NoMatch
ParenMatchAt(s, i) ==
    IF s[i] # "(" THEN NoMatch
    ELSE LET n == RunNotClose(s, i + 1)
         IN  IF n >= 1 /\ i + n + 1 <= Len(s)
             THEN << SubSeq(s, i, i + n + 1), SubSeq(s, i + 1, i + n) >>
             ELSE NoMatch

RECURSIVE ParenExecFrom(_, _)
ParenExecFrom(s, i) ==
    IF i > Len(s) THEN NoMatch
    ELSE IF ParenMatchAt(s, i) # NoMatch THEN ParenMatchAt(s, i)
    ELSE ParenExecFrom(s, i + 1)

\* a greedy variant, /\((.+)\)/: from the first "(" to the last ")"
ParenExecGreedy(s) ==
    LET opens == { i \in 1..Len(s) : s[i] = "(" /\ \E j \in (i + 2)..Len(s) : s[j] = ")" }
    IN  IF opens = {} THEN NoMatch
        ELSE LET i == Min(opens)
                 j == CHOOSE j \in (i + 2)..Len(s) :
                         s[j] = ")" /\ \A k \in (j + 1)..Len(s) : s[k] # ")"
             IN  << SubSeq(s, i, j), SubSeq(s, i + 1, j - 1) >>

\* /\(([^)]+)\)/.exec(text): the leftmost match
ParenExec(s) == ParenExecFrom(s, 1)

\* reviewerMatch ? reviewerMatch[1] : 'external'
ReviewerType(text) ==
    LET reviewerMatch == ParenExec(text)
    IN  IF reviewerMatch # NoMatch THEN reviewerMatch[2] ELSE External

Undefined == << "undefined" >>

\* coordinatorMatch ? coordinatorMatch[1] : undefined
Coordinator(text) ==
    LET coordinatorMatch == ParenExec(text)
    IN  IF coordinatorMatch # NoMatch THEN coordinatorMatch[2] ELSE Undefined

\* length matched by \d(?:\.\d)? at position i when the optional part is
\* taken (3), when it is not (1), or 0 when no digit stands at i
NumLens(s, i) ==
    IF i > Len(s) \/ s[i] \notin Digits THEN << >>
    ELSE IF i + 2 <= Len(s) /\ s[i + 1] = "." /\ s[i + 2] \in Digits
         THEN << 3, 1 >>     \* greedy first, then backtrack
         ELSE << 1 >>

\* the rest of the pattern after the first number of length a: \.\.(\d(?:\.\d)?)
ScaleRestAt(s, i, a) ==
    LET j == i + 1 + a
    IN  IF j + 1 <= Len(s) /\ s[j] = "." /\ s[j + 1] = "." /\ NumLens(s, j + 2) # << >>
        THEN LET b == NumLens(s, j + 2)[1]
             IN  << SubSeq(s, i, j + 1 + b),
                    SubSeq(s, i + 1, i + a),
                    SubSeq(s, j + 2, j + 1 + b) >>
        ELSE NoMatch

\* /scale is (\d(?:\.\d)?)\.\.(\d(?:\.\d)?)/ tried at position i
ScaleMatchAt(s, i) ==
    IF s[i] # "S" THEN NoMatch
    ELSE LET as == NumLens(s, i + 1)
         IN  IF as = << >> THEN NoMatch
             ELSE IF ScaleRestAt(s, i, as[1]) # NoMatch THEN ScaleRestAt(s, i, as[1])
             ELSE IF Len(as) = 2 THEN ScaleRestAt(s, i, as[2])
             ELSE NoMatch

RECURSIVE ScaleExecFrom(_, _)
ScaleExecFrom(s, i) ==
    IF i > Len(s) THEN NoMatch
    ELSE IF ScaleMatchAt(s, i) # NoMatch THEN ScaleMatchAt(s, i)
    ELSE ScaleExecFrom(s, i + 1)

ScaleExec(s) == ScaleExecFrom(s, 1)

NoScale == << >>   \* ratingScale: null

\* match.slice(1, 3).map(x => +x), with the two bounds exchanged
ScaleOfSwapped(text) ==
    LET m == ScaleExec(text)
    IN  IF m # NoMatch THEN << ToNumber(m[3]), ToNumber(m[2]) >> ELSE NoScale

\* ratingScaleMatch ? ratingScaleMatch.slice(1, 3).map(x => +x) : null
ScaleOf(text) ==
    LET m == ScaleExec(text)
    IN  IF m # NoMatch
        THEN LET slice == SubSeq(m, 2, 3)
             IN  [ k \in 1..2 |-> ToNumber(slice[k]) ]
        ELSE NoScale

IsSpace(c) == c = " "

RECURSIVE TrimStart(_)
TrimStart(s) == IF s # << >> /\ IsSpace(Head(s)) THEN TrimStart(Tail(s)) ELSE s

RECURSIVE TrimEnd(_)
TrimEnd(s) ==
    IF s # << >> /\ IsSpace(s[Len(s)]) THEN TrimEnd(SubSeq(s, 1, Len(s) - 1)) ELSE s

\* String.prototype.trim
Trim(s) == TrimEnd(TrimStart(s))

\* reviewParts, from the innerText of the rows of the third table
ReviewParts(reviewTrs) ==
    LET titles == [ k \in 1..((Len(reviewTrs) + 1) \div 2) |-> reviewTrs[2 * k - 1] ]
        mapped == [ k \in 1..Len(titles) |->
                      [ title   |-> IF titles[k] # << >> THEN Trim(titles[k]) ELSE Null,
                        content |-> IF 2 * k <= Len(reviewTrs)
                                    THEN Trim(reviewTrs[2 * k]) ELSE Null ] ]
    IN  SelectSeq(mapped, LAMBDA part : part.title # << >>)

\* link.innerText.includes('(you)')
IsUser(innerText) == \E i \in 1..Len(innerText) : innerText[i] = "Y"

-----------------------------------------------------------------------------
(* Listing pages: 'h1 + blockquote table tr:nth-child(n + 4)' *)

\* A listing page is the sequence of the row groups (the parents of the tr
\* elements: tbody, thead) under the blockquote, in document order; a row
\* group is the sequence of its rows; a row records the number of its td
\* cells and the contents the script reads.

\* tr:nth-child(n + 3)
NthChildFromThird(pos) == pos >= 3

\* tr:nth-child(n + 4): the element is the 4th or a later child of its parent
NthChildMatches(pos) == pos >= 4

RECURSIVE MatchedFrom(_, _)
MatchedFrom(group, pos) ==
    IF pos > Len(group) THEN << >>
    ELSE IF NthChildMatches(pos) THEN << group[pos] >> \o MatchedFrom(group, pos + 1)
    ELSE MatchedFrom(group, pos + 1)

\* the rows the selector matches, in document order
RECURSIVE SelectRows(_)
SelectRows(groups) ==
    IF groups = << >> THEN << >>
    ELSE MatchedFrom(Head(groups), 1) \o SelectRows(Tail(groups))

Flat == { "r1", "p0" }       \* revisions that stop at the submission list
Deep == { "r2", "r3" }       \* revisions that scrape the reviews
Revisions == Flat \cup Deep

\* the highest td index the row callback dereferences
LastTd(rev) == IF rev \in Flat THEN 12 ELSE 14

\* tds[k].innerText on a missing cell throws a TypeError
RowThrows(rev, tr) == tr.cells <= LastTd(rev)

\* the object the row callback returns
ScrapeRow(rev, tr) ==
    IF rev \in Flat
    THEN [ id |-> tr.id, title |-> tr.title, address |-> tr.reviews ]
    ELSE IF rev = "r2"
    THEN [ id |-> tr.id, title |-> tr.title, submissionAddress |-> tr.href,
           reviewsAddress |-> tr.reviews, reviewStatus |-> tr.status,
           coordinator |-> Coordinator(tr.coordTd) ]
    ELSE [ id |-> tr.id, title |-> tr.title, submissionAddress |-> tr.href,
           reviewsAddress |-> tr.reviews, reviewStatus |-> tr.status,
           award |-> tr.award, coordinator |-> Coordinator(tr.coordTd) ]

\* fetchSubmissionList / the $$eval of scrapeSubmissions:
\* [threw |-> TRUE] or the list of submissions
ScrapeSubmissionList(rev, page) ==
    LET trs == SelectRows(page)
    IN  IF \E k \in 1..Len(trs) : RowThrows(rev, trs[k])
        THEN [ threw |-> TRUE, list |-> << >> ]
        ELSE [ threw |-> FALSE, list |-> [ k \in 1..Len(trs) |-> ScrapeRow(rev, trs[k]) ] ]

\* the address a submission's reviews are listed at
ReviewsAddressOf(rev, sub) == IF rev \in Flat THEN sub.address ELSE sub.reviewsAddress

-----------------------------------------------------------------------------
(* Review pages *)

\* the $$eval of scrapeSubmissionReviews
ScrapeReviewLinks(links) ==
    [ k \in 1..Len(links) |->
        [ address |-> links[k].href, isUser |-> IsUser(links[k].innerText) ] ]

\* the $eval of scrapeSubmissionReview
ScrapeReviewBody(rev, page) ==
    IF rev = "r2"
    THEN [ number |-> page.number,
           rating |-> page.rating,
           ratingScale |-> ScaleOf(page.ratingTd),
           reviewerExpertise |-> page.expertise,
           expertiseScale |-> ScaleOf(page.expertiseTd),
           reviewerType |-> ReviewerType(page.reviewerTd),
           reviewParts |-> ReviewParts(page.reviewTrs) ]
    ELSE [ number |-> page.number,
           rating |-> page.rating,
           reviewerExpertise |-> page.expertise,
           reviewerType |-> ReviewerType(page.reviewerTd) ]

-----------------------------------------------------------------------------
(* The frozen pages of the portal the runs are made against *)

HeaderRow == [ cells |-> 1, id |-> "", title |-> "", href |-> "", reviews |-> "",
               status |-> "", award |-> "", coordTd |-> << >> ]

DataRow(id, reviews, coordTd) ==
    [ cells |-> 15, id |-> id, title |-> "Paper " \o id, href |-> "/sub/" \o id,
      reviews |-> reviews, status |-> "Done", award |-> "", coordTd |-> coordTd ]

CategoryLinks ==
    { [ name |-> "CHI", href |-> "/cat/1" ], [ name |-> "UIST", href |-> "/cat/2" ] }

ListingPage(address) ==
    IF address = "/cat/1"
    THEN << << HeaderRow, HeaderRow, HeaderRow,
               DataRow("101", "/rev/101", << "J", "(", "c", ")" >>) >> >>
    ELSE << << HeaderRow, HeaderRow, HeaderRow,
               DataRow("201", "/rev/201", << "J" >>),
               DataRow("202", "/rev/202", << "(", "c", ")" >>) >> >>

ReviewListPage(address) ==
    IF address = "/rev/101"
    THEN << [ href |-> "/rev/101/1", innerText |-> << "R" >> ],
            [ href |-> "/rev/101/2", innerText |-> << "R", "Y" >> ] >>
    ELSE << >>

ReviewPage(address) ==
    IF address = "/rev/101/1"
    THEN [ number |-> 1, rating |-> 30, expertise |-> 40,
           reviewerTd |-> << "R", "(", "A", ")" >>,
           ratingTd |-> << "S", "1", ".", ".", "5" >>,
           expertiseTd |-> << "S", "1", ".", ".", "5", ".", "5" >>,
           reviewTrs |-> << << "a" >>, << "a", " " >> >> ]
    ELSE [ number |-> 2, rating |-> 15, expertise |-> 10,
           reviewerTd |-> << "R" >>,
           ratingTd |-> << "1" >>,
           expertiseTd |-> << "S", "1", ".", "5", ".", ".", "5" >>,
           reviewTrs |-> << << " " >>, << "a" >>, << "a" >> >> ]

Credentials == [ username |-> "alice", password |-> "secret" ]

Dates == { 1, 2 }     \* values new Date() may produce

-----------------------------------------------------------------------------
(* Promise.all *)

\* a store that fills the slots in completion order (push instead of index)
PromiseAllPush(values, i, v) ==
    LET k == Min({ j \in 1..Len(values) : values[j] = Pending })
    IN  [ values EXCEPT ![k] = << v >> ]

\* a store that fills the slots from the end
PromiseAllUnshift(values, i, v) == [ values EXCEPT ![Len(values) + 1 - i] = << v >> ]

\* promise i fulfils with v: Promise.all keeps v at index i
PromiseAllStore(values, i, v) == [ values EXCEPT ![i] = << v >> ]

\* an aggregation that waits for every promise and ignores rejections
PromiseAllSettled(states) ==
    IF \A i \in 1..Len(states) : states[i] \in { "fulfilled", "rejected" }
    THEN "fulfilled" ELSE "pending"

\* the state of Promise.all(promises): rejected as soon as one promise is
\* rejected, fulfilled once all are fulfilled
PromiseAll(states) ==
    IF \E i \in 1..Len(states) : states[i] = "rejected" THEN "rejected"
    ELSE IF \A i \in 1..Len(states) : states[i] = "fulfilled" THEN "fulfilled"
    ELSE "pending"

Hole == [ hole |-> TRUE ]

\* the array Promise.all fulfils with
Fulfilled(values) ==
    [ k \in 1..Len(values) |-> IF values[k] = Pending THEN Hole ELSE values[k][1] ]

-----------------------------------------------------------------------------
(* The async branches *)

\* A branch is named by its path: << c >> is the callback of category c,
\* << c, s >> the callback of submission s of category c, << c, s, r >> the
\* call of scrapeSubmissionReview for link r. Its pc is the await it is
\* suspended on ("newPage", "goto", "eval", "close"), "join" while it awaits
\* the Promise.all of its children, or the state its promise settled in.

MainPage == << >>

Parent(t) == SubSeq(t, 1, Len(t) - 1)
NumChildren(tk, t) ==
    Cardinality({ u \in DOMAIN tk : Len(u) = Len(t) + 1 /\ Parent(u) = t })

Settled(pc) == pc \in { "fulfilled", "rejected" }

\* the state of the promise of a scrapeSubmissionReview call
RevPromise(tk, t) == IF Settled(tk[t].pc) THEN tk[t].pc ELSE "pending"

\* the Promise.all scrapeSubmissionReviews returns
RevAll(tk, t) == PromiseAll([ r \in 1..NumChildren(tk, t) |-> RevPromise(tk, Append(t, r)) ])

\* the state of the promise of a submission callback
SubPromise(tk, t) ==
    IF Settled(tk[t].pc) THEN tk[t].pc
    ELSE IF tk[t].pc = "join" /\ RevAll(tk, t) = "rejected" THEN "rejected"
    ELSE "pending"

\* the Promise.all scrapeSubmissions returns
SubAll(tk, t) == PromiseAll([ s \in 1..NumChildren(tk, t) |-> SubPromise(tk, Append(t, s)) ])

\* the state of the promise of a category callback
CatPromise(tk, t) ==
    IF Settled(tk[t].pc) THEN tk[t].pc
    ELSE IF tk[t].pc = "join" /\ SubAll(tk, t) = "rejected" THEN "rejected"
    ELSE "pending"

\* the state of the Promise.all main awaits
MainAll(tk) == PromiseAll([ c \in 1..Len(categories) |-> CatPromise(tk, << c >>) ])

\* browser callbacks are delivered only while main awaits its Promise.all
Running == mainPc = "fanout" /\ MainAll(tasks) = "pending"

At(t, level, pc) == t \in DOMAIN tasks /\ Len(t) = level /\ tasks[t].pc = pc

NewTask(item) == [ pc |-> "newPage", item |-> item, result |-> << >>, values |-> << >> ]

\* branch p closed its page and maps items to child branches
Spawn(p, items) ==
    [ t \in DOMAIN tasks \cup { Append(p, k) : k \in 1..Len(items) } |->
        IF t = p
        THEN [ tasks[p] EXCEPT !.pc = "join",
                               !.values = [ k \in 1..Len(items) |-> Pending ] ]
        ELSE IF t \in DOMAIN tasks THEN tasks[t]
        ELSE NewTask(items[t[Len(t)]]) ]

\* branch t returns v: its promise fulfils and the enclosing Promise.all
\* stores v
Fulfil(t, v) ==
    IF Len(t) = 1
    THEN /\ tasks' = [ tasks EXCEPT ![t].pc = "fulfilled" ]
         /\ mainValues' = PromiseAllStore(mainValues, t[1], v)
    ELSE /\ tasks' = [ tasks EXCEPT ![t].pc = "fulfilled",
                                    ![Parent(t)].values =
                                        PromiseAllStore(@, t[Len(t)], v) ]
         /\ UNCHANGED mainValues

mainRest == << revision, landing, mainPc, categories, loggedIn, logins, failure,
               logged, exitCode, output, runNo, firstOutput, unitIn, unitOut,
               unitPc >>

\* await browser.newPage()
TaskNewPage(t) ==
    /\ Running
    /\ t \in DOMAIN tasks /\ tasks[t].pc = "newPage"
    /\ tasks' = [ tasks EXCEPT ![t].pc = "goto" ]
    /\ openPages' = openPages \cup { t }
    /\ UNCHANGED << mainRest, mainValues >>

\* await page.goto(address, { waitUntil: 'domcontentloaded' })
TaskGoto(t) ==
    /\ Running
    /\ t \in DOMAIN tasks /\ tasks[t].pc = "goto"
    /\ tasks' = [ tasks EXCEPT ![t].pc = "eval" ]
    /\ UNCHANGED << mainRest, mainValues, openPages >>

\* the await of branch t throws: its promise is rejected, and the rejection
\* runs up the chain of Promise.all to main's promise before any other event
Reject(t, op) ==
    LET tk == [ tasks EXCEPT ![t].pc = "rejected" ]
    IN  /\ tasks' = tk
        /\ failure' = op
        /\ mainPc' = IF MainAll(tk) = "rejected" THEN "rejected" ELSE mainPc

taskRest == << revision, landing, categories, loggedIn, logins, logged,
               exitCode, output, runNo, firstOutput, unitIn, unitOut, unitPc >>

(* scrapeSubmissions, and the category callback of main *)

CatNewPage(t) == Len(t) = 1 /\ TaskNewPage(t)

CatGoto(t) == Len(t) = 1 /\ TaskGoto(t)

\* the submission list is extracted; the flat revisions return here, leaving
\* catPage open
CatEval(t) ==
    /\ Running
    /\ At(t, 1, "eval")
    /\ LET got == ScrapeSubmissionList(revision, ListingPage(tasks[t].item.address))
       IN  IF got.threw
           THEN Reject(t, "eval") /\ UNCHANGED mainValues
           ELSE /\ UNCHANGED << failure, mainPc >>
                /\ IF revision \in Flat
                   THEN Fulfil(t, [ submissions |-> got.list ] @@ tasks[t].item)
                   ELSE /\ tasks' = [ tasks EXCEPT ![t].pc = "close",
                                                   ![t].result = got.list ]
                        /\ UNCHANGED mainValues
    /\ UNCHANGED << taskRest, openPages >>

\* a scrapeSubmissions that starts the submission callbacks and leaves the
\* closing of catPage for later
CatCloseAfterMap(t) ==
    /\ Running
    /\ At(t, 1, "close")
    /\ tasks' = Spawn(t, tasks[t].result)
    /\ UNCHANGED << mainRest, mainValues, openPages >>

\* await catPage.close(); then every submission callback is started
CatClose(t) ==
    /\ Running
    /\ At(t, 1, "close")
    /\ openPages' = openPages \ { t }
    /\ tasks' = Spawn(t, tasks[t].result)
    /\ UNCHANGED << mainRest, mainValues >>

\* Promise.all(submissions.map(...)) fulfils; Object.assign({}, cat, { submissions })
CatJoin(t) ==
    /\ Running
    /\ At(t, 1, "join")
    /\ SubAll(tasks, t) = "fulfilled"
    /\ Fulfil(t, [ submissions |-> Fulfilled(tasks[t].values) ] @@ tasks[t].item)
    /\ UNCHANGED << mainRest, openPages >>

(* scrapeSubmissionReviews, and the submission callback of scrapeSubmissions *)

SubNewPage(t) == Len(t) = 2 /\ TaskNewPage(t)

SubGoto(t) == Len(t) = 2 /\ TaskGoto(t)

SubEval(t) ==
    /\ Running
    /\ At(t, 2, "eval")
    /\ tasks' = [ tasks EXCEPT
                    ![t].pc = "close",
                    ![t].result = ScrapeReviewLinks(
                        ReviewListPage(ReviewsAddressOf(revision, tasks[t].item))) ]
    /\ UNCHANGED << mainRest, mainValues, openPages >>

\* await submissionPage.close(); then every scrapeSubmissionReview is called
SubClose(t) ==
    /\ Running
    /\ At(t, 2, "close")
    /\ openPages' = openPages \ { t }
    /\ tasks' = Spawn(t, tasks[t].result)
    /\ UNCHANGED << mainRest, mainValues >>

\* Promise.all(reviewAddresses.map(...)) fulfils; Object.assign({}, sub, { reviews })
SubJoin(t) ==
    /\ Running
    /\ At(t, 2, "join")
    /\ RevAll(tasks, t) = "fulfilled"
    /\ Fulfil(t, [ reviews |-> Fulfilled(tasks[t].values) ] @@ tasks[t].item)
    /\ UNCHANGED << mainRest, openPages >>

(* scrapeSubmissionReview *)

RevNewPage(t) == Len(t) = 3 /\ TaskNewPage(t)

RevGoto(t) == Len(t) = 3 /\ TaskGoto(t)

RevEval(t) ==
    /\ Running
    /\ At(t, 3, "eval")
    /\ tasks' = [ tasks EXCEPT
                    ![t].pc = "close",
                    ![t].result = ScrapeReviewBody(revision, ReviewPage(tasks[t].item.address)) ]
    /\ UNCHANGED << mainRest, mainValues, openPages >>

\* await reviewPage.close(); return Object.assign({ isUser }, result)
RevClose(t) ==
    /\ Running
    /\ At(t, 3, "close")
    /\ openPages' = openPages \ { t }
    /\ Fulfil(t, tasks[t].result @@ [ isUser |-> tasks[t].item.isUser ])
    /\ UNCHANGED mainRest

\* a branch that closes its page in a finally block when an await throws
AwaitThrowsReleasing(t) ==
    /\ Running
    /\ t \in DOMAIN tasks /\ tasks[t].pc \in { "newPage", "goto", "eval", "close" }
    /\ Reject(t, tasks[t].pc)
    /\ openPages' = openPages \ { t }
    /\ UNCHANGED << taskRest, mainValues >>

\* the await a branch is suspended on throws: the branch's promise is
\* rejected, and nothing closes the page it may hold
AwaitThrows(t) ==
    /\ Running
    /\ t \in DOMAIN tasks /\ tasks[t].pc \in { "newPage", "goto", "eval", "close" }
    /\ Reject(t, tasks[t].pc)
    /\ UNCHANGED << taskRest, mainValues, openPages >>

-----------------------------------------------------------------------------
(* main and the top-level catch *)

LogInOps == << "logIn.click.userLoginID", "logIn.type.username",
               "logIn.click.password", "logIn.type.password",
               "logIn.press.Enter", "logIn.waitForNavigation" >>

\* a main that fans out before it logs in
MainOrderLoginLast ==
    << "launch", "newPage", "goto", "readFile", "scrapeSubmissionCategories",
       "fanout" >> \o LogInOps \o << "writeFile", "browser.close", "resolved" >>

\* the awaits of main, in program order
MainOrder ==
    << "launch", "newPage", "goto", "readFile" >> \o LogInOps
    \o << "scrapeSubmissionCategories", "fanout", "writeFile", "browser.close",
          "resolved" >>

NextPc(pc) ==
    LET k == CHOOSE i \in 1..Len(MainOrder) : MainOrder[i] = pc
    IN  MainOrder[k + 1]

IsLogInOp(pc) == \E k \in 1..Len(LogInOps) : LogInOps[k] = pc

\* process.exit(1) in the catch handler
CatchExitStatusError == 2 - 1

\* process.exit(0) in the catch handler
CatchExitStatus == 0

\* an envelope that takes its username from the wrong credential field
DocumentWrongUser(rev, list, date) ==
    [ keys |-> { "scrapper", "version", "username", "date", "categories" },
      listKey |-> "categories",
      username |-> Credentials.password,
      date |-> date,
      list |-> list ]

\* the object handed to JSON.stringify
Document(rev, list, date) ==
    IF rev = "r1"
    THEN [ keys |-> { }, listKey |-> "", username |-> "", date |-> 0, list |-> list ]
    ELSE [ keys |-> { "scrapper", "version", "username", "date",
                      IF rev = "r2" THEN "reviewCategories" ELSE "categories" },
           listKey |-> IF rev = "r2" THEN "reviewCategories" ELSE "categories",
           username |-> Credentials.username,
           date |-> date,
           list |-> list ]

NotWritten == << >>

mainOnly == << revision, landing, tasks, categories, mainValues, openPages,
               loggedIn, logins, failure, logged, exitCode, output, runNo,
               firstOutput, unitIn, unitOut, unitPc >>

\* puppeteer.launch, page.goto of the entry URL, readFile of the credentials
MainStep ==
    /\ mainPc \in { "launch", "goto", "readFile" }
    /\ mainPc' = NextPc(mainPc)
    /\ UNCHANGED mainOnly

\* const page = await browser.newPage()
MainNewPage ==
    /\ mainPc = "newPage"
    /\ mainPc' = NextPc(mainPc)
    /\ openPages' = openPages \cup { MainPage }
    /\ UNCHANGED << revision, landing, tasks, categories, mainValues, loggedIn,
                    logins, failure, logged, exitCode, output, runNo,
                    firstOutput, unitVars >>

\* one await of logIn; the last one is the navigation after the form is sent
LogIn ==
    /\ IsLogInOp(mainPc)
    /\ mainPc' = NextPc(mainPc)
    /\ loggedIn' = (loggedIn \/ mainPc = "logIn.waitForNavigation")
    /\ logins' = IF mainPc = "logIn.waitForNavigation" THEN logins + 1 ELSE logins
    /\ UNCHANGED << revision, landing, tasks, categories, mainValues, openPages,
                    failure, logged, exitCode, output, runNo, firstOutput,
                    unitVars >>

\* categories = await scrapeSubmissionCategories(page); then categories.map
\* starts one callback per category
Discover ==
    /\ mainPc = "scrapeSubmissionCategories"
    /\ mainPc' = NextPc(mainPc)
    /\ categories' = [ k \in 1..Len(landing) |->
                         [ name |-> landing[k].name, address |-> landing[k].href ] ]
    /\ tasks' = [ t \in { << k >> : k \in 1..Len(landing) } |-> NewTask(categories'[t[1]]) ]
    /\ mainValues' = [ k \in 1..Len(landing) |-> Pending ]
    /\ UNCHANGED << revision, landing, openPages, loggedIn, logins, failure,
                    logged, exitCode, output, runNo, firstOutput, unitVars >>

\* the Promise.all of main fulfils
MainResume ==
    /\ mainPc = "fanout"
    /\ MainAll(tasks) = "fulfilled"
    /\ mainPc' = NextPc(mainPc)
    /\ UNCHANGED mainOnly

\* await writeFile(OUTPUT_FILE, JSON.stringify(...))
WriteFile ==
    /\ mainPc = "writeFile"
    /\ mainPc' = NextPc(mainPc)
    /\ \E date \in Dates : output' = Document(revision, Fulfilled(mainValues), date)
    /\ UNCHANGED << revision, landing, tasks, categories, mainValues, openPages,
                    loggedIn, logins, failure, logged, exitCode, runNo,
                    firstOutput, unitVars >>

\* await browser.close()
BrowserClose ==
    /\ mainPc = "browser.close"
    /\ mainPc' = NextPc(mainPc)
    /\ openPages' = { }
    /\ UNCHANGED << revision, landing, tasks, categories, mainValues, loggedIn,
                    logins, failure, logged, exitCode, output, runNo,
                    firstOutput, unitVars >>

\* main's promise is fulfilled and nothing is left to run: the process ends
ProcessEnd ==
    /\ mainPc = "resolved"
    /\ mainPc' = "exited"
    /\ exitCode' = 0
    /\ tasks' = << >> /\ categories' = << >> /\ mainValues' = << >>
    /\ UNCHANGED << revision, landing, openPages, loggedIn, logins, failure,
                    logged, output, runNo, firstOutput, unitVars >>

\* an await of main throws
MainAwaitThrows ==
    /\ mainPc \notin { "fanout", "resolved", "rejected", "exited" }
    /\ mainPc' = "rejected"
    /\ failure' = mainPc
    /\ UNCHANGED << revision, landing, tasks, categories, mainValues, openPages,
                    loggedIn, logins, logged, exitCode, output, runNo,
                    firstOutput, unitVars >>

\* .catch(e => { log.error(e); process.exit(0); })
TopLevelCatch ==
    /\ mainPc = "rejected"
    /\ mainPc' = "exited"
    /\ logged' = TRUE
    /\ exitCode' = CatchExitStatus
    /\ tasks' = << >> /\ categories' = << >> /\ mainValues' = << >>
    /\ openPages' = { }
    /\ UNCHANGED << revision, landing, loggedIn, logins, failure, output,
                    runNo, firstOutput, unitVars >>

\* the script is started a second time against the same pages
Relaunch ==
    /\ mainPc = "exited"
    /\ runNo = 1
    /\ output # NotWritten
    /\ runNo' = 2
    /\ firstOutput' = output
    /\ mainPc' = "launch"
    /\ tasks' = << >>
    /\ categories' = << >>
    /\ mainValues' = << >>
    /\ openPages' = { }
    /\ loggedIn' = FALSE
    /\ logins' = 0
    /\ failure' = "none"
    /\ logged' = FALSE
    /\ exitCode' = -1
    /\ output' = NotWritten
    /\ UNCHANGED << revision, landing, unitVars >>

-----------------------------------------------------------------------------
(* The pipeline *)

RECURSIVE SeqsUpTo(_, _)
SeqsUpTo(S, n) ==
    IF n = 0 THEN { << >> }
    ELSE LET shorter == SeqsUpTo(S, n - 1)
         IN  shorter \cup { Append(q, x) : q \in shorter, x \in S }

Injective(q) == \A i, j \in 1..Len(q) : q[i] = q[j] => i = j

\* the landing pages: any selection of the portal's categories, in any order
Landings ==
    { q \in SeqsUpTo(CategoryLinks, Cardinality(CategoryLinks)) : Injective(q) }

Init ==
    /\ revision \in Revisions
    /\ landing \in Landings
    /\ mainPc = "launch"
    /\ tasks = << >>
    /\ categories = << >>
    /\ mainValues = << >>
    /\ openPages = { }
    /\ loggedIn = FALSE
    /\ logins = 0
    /\ failure = "none"
    /\ logged = FALSE
    /\ exitCode = -1
    /\ output = NotWritten
    /\ runNo = 1
    /\ firstOutput = NotWritten
    /\ unitIn = << >>
    /\ unitOut = << >>
    /\ unitPc = "none"

Next ==
    \/ MainStep
    \/ MainNewPage
    \/ LogIn
    \/ Discover
    \/ MainResume
    \/ WriteFile
    \/ BrowserClose
    \/ ProcessEnd
    \/ MainAwaitThrows
    \/ TopLevelCatch
    \/ \E t \in DOMAIN tasks :
        \/ CatNewPage(t)
        \/ CatGoto(t)
        \/ CatEval(t)
        \/ CatClose(t)
        \/ CatJoin(t)
        \/ SubNewPage(t)
        \/ SubGoto(t)
        \/ SubEval(t)
        \/ SubClose(t)
        \/ SubJoin(t)
        \/ RevNewPage(t)
        \/ RevGoto(t)
        \/ RevEval(t)
        \/ RevClose(t)
        \/ AwaitThrows(t)

Spec == Init /\ [][Next]_vars

\* two runs of the script against the same frozen pages
SpecTwoRuns == Init /\ [][Next \/ Relaunch]_vars

-----------------------------------------------------------------------------
(* The extraction functions on their own: one page script is applied to an  *)
(* input drawn from a bounded set of page contents                          *)

Idle ==
    /\ revision = "r2"
    /\ landing = << >>
    /\ mainPc = "launch"
    /\ tasks = << >>
    /\ categories = << >>
    /\ mainValues = << >>
    /\ openPages = { }
    /\ loggedIn = FALSE
    /\ logins = 0
    /\ failure = "none"
    /\ logged = FALSE
    /\ exitCode = -1
    /\ output = NotWritten
    /\ runNo = 1
    /\ firstOutput = NotWritten

ParenChars == { "(", ")", "a" }
ScaleChars == { "S", "1", "5", "." }
CellChars == { " ", "a" }

InitReviewer ==
    /\ Idle
    /\ unitIn \in SeqsUpTo(ParenChars, MaxTextLen)
    /\ unitOut = << >>
    /\ unitPc = "ready"

\* reviewerType of the $eval of scrapeSubmissionReview
ApplyReviewerType ==
    /\ unitPc = "ready"
    /\ unitOut' = ReviewerType(unitIn)
    /\ unitPc' = "done"
    /\ UNCHANGED << pipeVars, unitIn >>

SpecReviewer == InitReviewer /\ [][ApplyReviewerType]_vars

InitScale ==
    /\ Idle
    /\ unitIn \in SeqsUpTo(ScaleChars, MaxScaleLen)
    /\ unitOut = << >>
    /\ unitPc = "ready"

\* ratingScale / expertiseScale of the $eval of scrapeSubmissionReview
ApplyScale ==
    /\ unitPc = "ready"
    /\ unitOut' = ScaleOf(unitIn)
    /\ unitPc' = "done"
    /\ UNCHANGED << pipeVars, unitIn >>

SpecScale == InitScale /\ [][ApplyScale]_vars

InitParts ==
    /\ Idle
    /\ unitIn \in SeqsUpTo(SeqsUpTo(CellChars, MaxCellLen), MaxTrs)
    /\ unitOut = << >>
    /\ unitPc = "ready"

\* reviewParts of the $eval of scrapeSubmissionReview
ApplyReviewParts ==
    /\ unitPc = "ready"
    /\ unitOut' = ReviewParts(unitIn)
    /\ unitPc' = "done"
    /\ UNCHANGED << pipeVars, unitIn >>

SpecParts == InitParts /\ [][ApplyReviewParts]_vars

\* a row of a generated listing page: row k of row group g
UnitRow(g, k, cells) ==
    [ cells |-> cells, id |-> 10 * g + k, title |-> "", href |-> "", reviews |-> "",
      status |-> "", award |-> "", coordTd |-> << >> ]

RECURSIVE SumTo(_, _)
SumTo(shape, g) == IF g = 0 THEN 0 ELSE shape[g] + SumTo(shape, g - 1)

\* the listing page with shape[g] rows in row group g, all rows complete
\* but (when short > 0) the short-th row of the page, which has 13 cells
UnitPage(shape, short) ==
    [ g \in 1..Len(shape) |->
        [ k \in 1..shape[g] |->
            UnitRow(g, k, IF SumTo(shape, g - 1) + k = short THEN 13 ELSE 15) ] ]

UnitPages ==
    { UnitPage(shape, short) :
        shape \in SeqsUpTo(0..MaxRows, MaxGroups), short \in 0..1 }
    \cup { UnitPage(shape, SumTo(shape, Len(shape))) :
        shape \in SeqsUpTo(0..MaxRows, MaxGroups) }

InitRows ==
    /\ Idle
    /\ unitIn \in [ rev : { "p0", "r3" }, page : UnitPages ]
    /\ unitOut = << >>
    /\ unitPc = "ready"

\* fetchSubmissionList / the $$eval of scrapeSubmissions
ApplySubmissionList ==
    /\ unitPc = "ready"
    /\ LET got == ScrapeSubmissionList(unitIn.rev, unitIn.page)
       IN  /\ unitOut' = got.list
           /\ unitPc' = IF got.threw THEN "threw" ELSE "done"
    /\ UNCHANGED << pipeVars, unitIn >>

SpecRows == InitRows /\ [][ApplySubmissionList]_vars

-----------------------------------------------------------------------------
(* Properties *)

Written == output # NotWritten

\* the reviews of one submission, as assembled, against the links of the
\* review list at the submission's own reviewsAddress
ReviewsAligned(reviews, reviewsAddress) ==
    LET links == ReviewListPage(reviewsAddress)
    IN  /\ Len(reviews) = Len(links)
        /\ \A r \in 1..Len(links) :
             /\ reviews[r].isUser = IsUser(links[r].innerText)
             /\ reviews[r].number = ReviewPage(links[r].href).number

\* the submissions of one category, as assembled, against the rows of the
\* listing page at the category's own address
SubmissionsAligned(submissions, address) ==
    LET rows == ScrapeSubmissionList(revision, ListingPage(address)).list
    IN  /\ Len(submissions) = Len(rows)
        /\ \A s \in 1..Len(rows) :
             /\ submissions[s].id = rows[s].id
             /\ revision \in Deep =>
                  ReviewsAligned(submissions[s].reviews, rows[s].reviewsAddress)

CategoriesAligned(list) ==
    /\ Len(list) = Len(landing)
    /\ \A c \in 1..Len(landing) :
         /\ list[c].name = landing[c].name
         /\ list[c].address = landing[c].href
         /\ SubmissionsAligned(list[c].submissions, landing[c].href)

\* C1: at every fan-out level the assembled list has the length of the input
\* list and its element i is the result computed for input element i: every
\* filled slot of a Promise.all holds the result of the branch of the same
\* index (category i its own name, address and submissions; submission i the
\* reviews of its own reviewsAddress; review i the isUser flag of link i),
\* and the list that is written is aligned with the landing page.
C1_OrderPreserved ==
    /\ \A c \in 1..Len(mainValues) :
         mainValues[c] # Pending =>
           /\ Len(mainValues) = Len(categories)
           /\ mainValues[c][1].name = categories[c].name
           /\ mainValues[c][1].address = categories[c].address
           /\ SubmissionsAligned(mainValues[c][1].submissions, categories[c].address)
    /\ \A t \in DOMAIN tasks : \A k \in 1..Len(tasks[t].values) :
         tasks[t].values[k] # Pending =>
           /\ Len(tasks[t].values) = Len(tasks[t].result)
           /\ Len(t) = 1 =>
                /\ tasks[t].values[k][1].id = tasks[t].result[k].id
                /\ ReviewsAligned(tasks[t].values[k][1].reviews,
                                  tasks[t].result[k].reviewsAddress)
           /\ Len(t) = 2 =>
                /\ tasks[t].values[k][1].isUser = tasks[t].result[k].isUser
                /\ tasks[t].values[k][1].number =
                       ReviewPage(tasks[t].result[k].address).number
    /\ Written => CategoriesAligned(output.list)

\* C1 witness: children completed out of input order at the category level
\* and at the review level
C1_Witness ==
    /\ revision \in Deep
    /\ Len(mainValues) = 2
    /\ mainValues[1] = Pending /\ mainValues[2] # Pending
    /\ \E t \in DOMAIN tasks :
         /\ Len(t) = 2 /\ Len(tasks[t].values) = 2
         /\ tasks[t].values[1] = Pending /\ tasks[t].values[2] # Pending

\* C2: when an operation before the write fails (login, goto, newPage,
\* an extraction, in main or in any branch), the output document is never
\* written.
C2_FailFast == failure \notin { "none", "browser.close" } => ~Written

\* C2 witness: a review branch failed after a sibling category had completed
C2_Witness ==
    /\ mainPc = "rejected"
    /\ failure = "eval"
    /\ \E t \in DOMAIN tasks : Len(t) = 3 /\ tasks[t].pc = "rejected"
    /\ \E c \in 1..Len(mainValues) : mainValues[c] # Pending

\* C3: whenever the process has terminated its exit status is 0, after a
\* failed run (where the error was logged) as after a successful one.
C3_ExitStatusZero ==
    mainPc = "exited" => (exitCode = 0 /\ (failure # "none" => logged))

\* C3 witness: the process has exited after a failed run
C3_Witness == mainPc = "exited" /\ failure = "goto" /\ logged /\ ~Written

\* C4 (as claimed): in a failure-free run, at the moment the document is
\* written no page other than the top-level page is open, and no branch that
\* has gone past its extraction still holds its page.
C4_PagesReleased ==
    /\ (failure = "none" /\ Written) => openPages \subseteq { MainPage }
    /\ \A t \in DOMAIN tasks : tasks[t].pc \in { "join", "fulfilled" } => t \notin openPages

\* C5: no category, review-list or review page is opened, and category
\* discovery does not start, before the login sequence has completed, which
\* happens at most once; after a failed login no such page is ever opened.
C5_AuthenticateFirst ==
    /\ logins <= 1
    /\ loggedIn <=> logins = 1
    /\ ( \/ mainPc \in { "scrapeSubmissionCategories", "fanout" }
         \/ tasks # << >>
         \/ categories # << >>
         \/ ~(openPages \subseteq { MainPage })
         \/ Written ) => loggedIn
    /\ IsLogInOp(failure) => (openPages \subseteq { MainPage } /\ tasks = << >>)

\* C5 witness: branch pages are open after one completed login
C5_Witness ==
    /\ logins = 1
    /\ \E t \in DOMAIN tasks : Len(t) = 3 /\ t \in openPages
    /\ \E t \in DOMAIN tasks : Len(t) = 1 /\ t \in openPages

-----------------------------------------------------------------------------
(* Properties of the extraction functions *)

Max0(n) == IF n > 0 THEN n ELSE 0

\* the number of rows selected in the row groups before group g
RECURSIVE SelectedBefore(_, _)
SelectedBefore(page, g) ==
    IF g <= 1 THEN 0
    ELSE SelectedBefore(page, g - 1) + Max0(Len(page[g - 1]) - 3)

RECURSIVE RowsBefore(_, _)
RowsBefore(page, g) ==
    IF g <= 1 THEN 0 ELSE RowsBefore(page, g - 1) + Len(page[g - 1])

\* C6 (as claimed): the number of submissions returned is the number of
\* table rows of the page without the first three rows, and the submissions
\* are the remaining rows in page order.
C6_AllButFirstThreeRows ==
    unitPc = "done" =>
        LET page == unitIn.page
            total == RowsBefore(page, Len(page) + 1)
        IN  /\ Len(unitOut) = Max0(total - 3)
            /\ \A g \in 1..Len(page) : \A k \in 1..Len(page[g]) :
                 RowsBefore(page, g) + k > 3 =>
                     unitOut[RowsBefore(page, g) + k - 3].id = page[g][k].id

\* C6 (amended): when the extraction succeeds the submissions returned are,
\* in page order, exactly the rows that are the fourth or a later child of
\* their own row group, one submission per such row: the first three rows of
\* every row group are skipped.
C6_RowsFromFourthOfEachGroup ==
    unitPc = "done" =>
        LET page == unitIn.page
        IN  /\ Len(unitOut) = SelectedBefore(page, Len(page) + 1)
            /\ \A g \in 1..Len(page) : \A k \in 4..Len(page[g]) :
                 unitOut[SelectedBefore(page, g) + k - 3].id = page[g][k].id

\* C6 witness: a listing of two row groups, each with rows after its third
C6_Witness ==
    /\ unitPc = "done"
    /\ Len(unitIn.page) = 2
    /\ Len(unitIn.page[1]) = 4 /\ Len(unitIn.page[2]) = 4
    /\ Len(unitOut) = 2

IsDigitAt(s, i) == i >= 1 /\ i <= Len(s) /\ s[i] \in Digits

\* the text holds a number of length a (1: D, 3: D.D) at position i
IsNumAt(s, i, a) ==
    /\ IsDigitAt(s, i)
    /\ a = 3 => (i + 2 <= Len(s) /\ s[i + 1] = "." /\ IsDigitAt(s, i + 2))

\* the text reads 'scale is X..Y' at position i, X of length a, Y of length b
ScaleOccursAt(s, i, a, b) ==
    /\ i >= 1 /\ i + a + 2 + b <= Len(s)
    /\ s[i] = "S"
    /\ IsNumAt(s, i + 1, a)
    /\ s[i + 1 + a] = "." /\ s[i + 2 + a] = "."
    /\ IsNumAt(s, i + 3 + a, b)

ScaleOccurs(s, i) == \E a, b \in { 1, 3 } : ScaleOccursAt(s, i, a, b)

TitleRows(reviewTrs) == { k \in 1..Len(reviewTrs) : k % 2 = 1 }

\* C8 (as claimed): a pair is discarded exactly when its title is the empty
\* string after trimming: a title row whose text is empty or only whitespace
\* produces no entry, every other title row produces one, and no entry has an
\* empty title.
C8_EmptyTitlesDiscarded ==
    unitPc = "done" =>
        /\ Len(unitOut) =
             Cardinality({ k \in TitleRows(unitIn) : Trim(unitIn[k]) # << >> })
        /\ \A n \in 1..Len(unitOut) : unitOut[n].title # << >>

\* the first "(" that opens a parenthesized token: "(", then one or more
\* characters other than ")", then ")"
TokenStarts(s) ==
    { i \in 1..Len(s) :
        /\ s[i] = "("
        /\ \E j \in (i + 2)..Len(s) :
             s[j] = ")" /\ \A k \in (i + 1)..(j - 1) : s[k] # ")" }

\* C10: reviewerType is 'external' when the reviewer cell holds no
\* parenthesized token, and otherwise the text between the parentheses of the
\* first parenthesized token of the cell.
C10_ReviewerType ==
    unitPc = "done" =>
        IF TokenStarts(unitIn) = { } THEN unitOut = External
        ELSE LET i == Min(TokenStarts(unitIn))
                 j == Min({ j \in (i + 1)..Len(unitIn) : unitIn[j] = ")" })
             IN  unitOut = SubSeq(unitIn, i + 1, j - 1)

\* C10 witness: a cell whose first token follows an empty pair of parentheses
C10_Witness ==
    /\ unitPc = "done"
    /\ Len(unitIn) >= 4
    /\ unitIn[1] = ")" /\ unitIn[2] = "("
    /\ unitOut = << "a" >>

-----------------------------------------------------------------------------
(* Properties of two runs *)

\* C9: a second run against the same frozen pages writes the same list of
\* categories (same nesting, order and fields) and the same envelope as the
\* first run, whatever the completion order of the page fetches in either
\* run; only the date may differ.
C9_SameCategories ==
    (runNo = 2 /\ Written) =>
        /\ output.list = firstOutput.list
        /\ output.keys = firstOutput.keys
        /\ output.listKey = firstOutput.listKey
        /\ output.username = firstOutput.username

\* C9 witness: both runs wrote the three-level document, at different dates
C9_Witness ==
    /\ runNo = 2 /\ Written
    /\ revision \in Deep
    /\ Len(output.list) = 2
    /\ output.date # firstOutput.date

-----------------------------------------------------------------------------
(* Properties of the written document *)

\* C11 (as claimed): the written document is one envelope whose keys are
\* exactly scrapperName, version, username, date and categories, with the
\* category list under categories and the username of the credentials.
C11_EnvelopeAsSpecified ==
    Written =>
        /\ output.keys = { "scrapperName", "version", "username", "date", "categories" }
        /\ output.listKey = "categories"
        /\ output.username = Credentials.username

\* C11 (amended): every revision but the first writes one envelope whose keys
\* are exactly scrapper, version, username, date and the key of the category
\* list, which is categories (reviewCategories in the second revision of
\* index.js); the list under that key is the list Promise.all fulfilled with
\* and username is the username of the credentials. The first revision writes
\* the bare list, with no envelope.
C11_EnvelopeAsWritten ==
    Written =>
        /\ CategoriesAligned(output.list)
        /\ IF revision = "r1"
           THEN output.keys = { } /\ output.listKey = ""
           ELSE /\ output.listKey = IF revision = "r2" THEN "reviewCategories"
                                    ELSE "categories"
                /\ output.keys =
                     { "scrapper", "version", "username", "date", output.listKey }
                /\ output.username = Credentials.username
                /\ output.date \in Dates

\* C11 witness: the last revision has written an envelope of two categories
C11_Witness ==
    /\ Written
    /\ revision = "r3"
    /\ failure = "none"
    /\ Len(output.list) = 2
    /\ output.username = "alice"

-----------------------------------------------------------------------------
(* Properties of the pages held by the branches *)

\* C12: when the navigation or the extraction of scrapeSubmissions,
\* scrapeSubmissionReviews or scrapeSubmissionReview throws after the branch
\* has opened its page, the error is propagated to main's promise and the
\* page is not closed: the branch has ended in error and still holds its page.
C12_PageLeakedOnError ==
    \A t \in DOMAIN tasks :
        (tasks[t].pc = "rejected" /\ failure \in { "goto", "eval" }) =>
            (t \in openPages /\ mainPc = "rejected")

\* C12 witness: scrapeSubmissionReview ended in error at its extraction with
\* reviewPage still open
C12_Witness ==
    \E t \in DOMAIN tasks :
        /\ Len(t) = 3
        /\ tasks[t].pc = "rejected"
        /\ failure = "eval"
        /\ t \in openPages

\* the pages of the branches that t descends from
AncestorPages(t) == { SubSeq(t, 1, n) : n \in 1..(Len(t) - 1) }

\* C13: a page is closed before any page of a child branch is opened: while
\* a review-list page or a review page is open, the listing page and the
\* review-list page it descends from are closed, and a branch that has
\* started its children no longer holds its page.
C13_ParentClosedFirst ==
    /\ \A t \in openPages : AncestorPages(t) \cap openPages = { }
    /\ \A t \in DOMAIN tasks : Len(t) >= 2 => Parent(t) \notin openPages

\* C13 witness: a review page is open, the review-list page and the listing
\* page above it are closed, and the listing page of the other category is
\* open
C13_Witness ==
    \E t \in openPages :
        /\ Len(t) = 3
        /\ tasks[Parent(t)].pc = "join" /\ tasks[Parent(Parent(t))].pc = "join"
        /\ \E u \in openPages : Len(u) = 1

====
